---- MODULE Spec2Model ----
(***************************************************************************)
(* Design Token Manager (src/src/design_token_manager.py): the tokens and  *)
(* token_snapshots tables, the CRUD operations over them, batch import,    *)
(* seeding and snapshots.                                                  *)
(*                                                                         *)
(* Text that the program inspects character by character (names, values,   *)
(* categories, ids, the comma-joined alias and tag columns) is a sequence   *)
(* of one-character strings.  Text the program only carries around          *)
(* (descriptions, deprecation reasons) is a plain string.  Timestamps       *)
(* (_now().isoformat(), compared as text by SQLite) are natural numbers in  *)
(* clock order, and the empty timestamp "" is NoTimestamp.                  *)
(***************************************************************************)
EXTENDS Integers, Sequences, FiniteSets, TLC

\* ------------------------------------------------------------------ bounds
MaxTime == 2    \* the clock readings are 1..MaxTime
MaxCalls == 3   \* a run makes at most MaxCalls calls
SeedLen == 2    \* the seed catalogue is cut to its first SeedLen entries

\* -------------------------------------------------------------- characters
Digits == {"0","1","2","3","4","5","6","7","8","9"}
LowerLetters == <<"a","b","c","d","e","f","g","h","i","j","k","l","m",
                  "n","o","p","q","r","s","t","u","v","w","x","y","z">>
UpperLetters == <<"A","B","C","D","E","F","G","H","I","J","K","L","M",
                  "N","O","P","Q","R","S","T","U","V","W","X","Y","Z">>
HexDigits == Digits \cup {"a","b","c","d","e","f","A","B","C","D","E","F"}
Whitespace == {" ", "\t", "\n", "\r", "\f"}

\* The characters of the model's texts in byte order (SQLite's BINARY
\* collation compares TEXT by memcmp).
ByteOrder == <<"\t","\n","\f","\r"," ","#","%","'","(",")",",","-",".","/",
               "0","1","2","3","4","5","6","7","8","9">>
             \o UpperLetters \o <<"_">> \o LowerLetters

Ord(c) == CHOOSE i \in 1..Len(ByteOrder) : ByteOrder[i] = c

RECURSIVE TextLess(_, _)
TextLess(a, b) ==
  IF a = <<>> THEN b # <<>>
  ELSE IF b = <<>> THEN FALSE
  ELSE IF Head(a) = Head(b) THEN TextLess(Tail(a), Tail(b))
  ELSE Ord(Head(a)) < Ord(Head(b))

\* str.lower() on one character
LowerChar(c) ==
  IF c \in {UpperLetters[i] : i \in 1..26}
  THEN LowerLetters[CHOOSE i \in 1..26 : UpperLetters[i] = c]
  ELSE c

Lower(s) == [i \in 1..Len(s) |-> LowerChar(s[i])]

StartsWith(s, p) == Len(s) >= Len(p) /\ SubSeq(s, 1, Len(p)) = p

EndsWith(s, p) == Len(s) >= Len(p) /\ SubSeq(s, Len(s) - Len(p) + 1, Len(s)) = p

\* the substring test  `sub in s`
Contains(s, sub) ==
  \E i \in 1..(Len(s) - Len(sub) + 1) : SubSeq(s, i, i + Len(sub) - 1) = sub

\* str.strip()
RECURSIVE LStrip(_)
LStrip(s) == IF s # <<>> /\ Head(s) \in Whitespace THEN LStrip(Tail(s)) ELSE s

RECURSIVE RStrip(_)
RStrip(s) ==
  IF s # <<>> /\ s[Len(s)] \in Whitespace THEN RStrip(SubSeq(s, 1, Len(s) - 1)) ELSE s

Strip(s) == RStrip(LStrip(s))

\* sep.join(parts)
RECURSIVE Join(_, _)
Join(parts, sep) ==
  IF parts = <<>> THEN <<>>
  ELSE IF Len(parts) = 1 THEN parts[1]
  ELSE parts[1] \o sep \o Join(Tail(parts), sep)

\* text.split(sep) for a one-character separator: always at least one part
RECURSIVE Split(_, _)
Split(text, sep) ==
  IF \E i \in 1..Len(text) : text[i] = sep[1]
  THEN LET k == CHOOSE i \in 1..Len(text) :
                  text[i] = sep[1] /\ \A j \in 1..(i - 1) : text[j] # sep[1]
       IN  <<SubSeq(text, 1, k - 1)>> \o Split(SubSeq(text, k + 1, Len(text)), sep)
  ELSE <<text>>

Comma == <<",">>

\* ----------------------------------------------------------------- constants
CATEGORIES == <<<<"c","o","l","o","r">>, <<"s","p","a","c","i","n","g">>, <<"t","y","p","o","g","r","a","p","h","y">>, <<"s","h","a","d","o","w">>, <<"r","a","d","i","u","s">>,
                <<"o","p","a","c","i","t","y">>, <<"z","-","i","n","d","e","x">>, <<"b","r","e","a","k","p","o","i","n","t">>, <<"m","o","t","i","o","n">>, <<"b","o","r","d","e","r">>>>

IsCategory(c) == \E i \in 1..Len(CATEGORIES) : CATEGORIES[i] = c

color == CATEGORIES[1]
spacing == CATEGORIES[2]

\* the empty timestamp ""
NoTimestamp == 0

\* SEED_TOKENS as the source lists it (the dash of the first description is
\* written in ASCII)
SEED_CATALOGUE == <<
  [name |-> <<"c","o","l","o","r","/","b","r","a","n","d","/","p","r","i","m","a","r","y">>,
   category |-> <<"c","o","l","o","r">>, value |-> <<"#","F","F","1","D","6","C">>,
   description |-> "Hot Pink - primary brand"],
  [name |-> <<"c","o","l","o","r","/","b","r","a","n","d","/","s","e","c","o","n","d","a","r","y">>,
   category |-> <<"c","o","l","o","r">>, value |-> <<"#","2","9","7","9","F","F">>,
   description |-> "Electric Blue"],
  [name |-> <<"c","o","l","o","r","/","b","r","a","n","d","/","a","c","c","e","n","t">>,
   category |-> <<"c","o","l","o","r">>, value |-> <<"#","F","5","A","6","2","3">>,
   description |-> "Amber"],
  [name |-> <<"c","o","l","o","r","/","b","r","a","n","d","/","v","i","o","l","e","t">>,
   category |-> <<"c","o","l","o","r">>, value |-> <<"#","9","C","2","7","B","0">>,
   description |-> "Violet"],
  [name |-> <<"c","o","l","o","r","/","t","e","x","t","/","p","r","i","m","a","r","y">>,
   category |-> <<"c","o","l","o","r">>, value |-> <<"#","0","F","0","F","0","F">>,
   description |-> "Near-black body text"],
  [name |-> <<"c","o","l","o","r","/","t","e","x","t","/","s","e","c","o","n","d","a","r","y">>,
   category |-> <<"c","o","l","o","r">>, value |-> <<"#","4","B","5","5","6","3">>,
   description |-> "Muted text"],
  [name |-> <<"c","o","l","o","r","/","b","g","/","b","a","s","e">>,
   category |-> <<"c","o","l","o","r">>, value |-> <<"#","F","F","F","F","F","F">>,
   description |-> "Page background"],
  [name |-> <<"c","o","l","o","r","/","b","g","/","s","u","r","f","a","c","e">>,
   category |-> <<"c","o","l","o","r">>, value |-> <<"#","F","9","F","A","F","B">>,
   description |-> "Card / panel background"],
  [name |-> <<"c","o","l","o","r","/","s","e","m","a","n","t","i","c","/","s","u","c","c","e","s","s">>,
   category |-> <<"c","o","l","o","r">>, value |-> <<"#","1","6","A","3","4","A">>,
   description |-> "Success green"],
  [name |-> <<"c","o","l","o","r","/","s","e","m","a","n","t","i","c","/","e","r","r","o","r">>,
   category |-> <<"c","o","l","o","r">>, value |-> <<"#","D","C","2","6","2","6">>,
   description |-> "Error red"],
  [name |-> <<"c","o","l","o","r","/","s","e","m","a","n","t","i","c","/","w","a","r","n","i","n","g">>,
   category |-> <<"c","o","l","o","r">>, value |-> <<"#","D","9","7","7","0","6">>,
   description |-> "Warning amber"],
  [name |-> <<"s","p","a","c","i","n","g","/","1">>,
   category |-> <<"s","p","a","c","i","n","g">>, value |-> <<"4","p","x">>,
   description |-> "4px = half-unit"],
  [name |-> <<"s","p","a","c","i","n","g","/","2">>,
   category |-> <<"s","p","a","c","i","n","g">>, value |-> <<"8","p","x">>,
   description |-> "8px = 1 unit"],
  [name |-> <<"s","p","a","c","i","n","g","/","3">>,
   category |-> <<"s","p","a","c","i","n","g">>, value |-> <<"1","2","p","x">>,
   description |-> "12px"],
  [name |-> <<"s","p","a","c","i","n","g","/","4">>,
   category |-> <<"s","p","a","c","i","n","g">>, value |-> <<"1","6","p","x">>,
   description |-> "16px = 2 units"],
  [name |-> <<"s","p","a","c","i","n","g","/","6">>,
   category |-> <<"s","p","a","c","i","n","g">>, value |-> <<"2","4","p","x">>,
   description |-> "24px"],
  [name |-> <<"s","p","a","c","i","n","g","/","8">>,
   category |-> <<"s","p","a","c","i","n","g">>, value |-> <<"3","2","p","x">>,
   description |-> "32px = 4 units"],
  [name |-> <<"s","p","a","c","i","n","g","/","1","2">>,
   category |-> <<"s","p","a","c","i","n","g">>, value |-> <<"4","8","p","x">>,
   description |-> "48px"],
  [name |-> <<"s","p","a","c","i","n","g","/","1","6">>,
   category |-> <<"s","p","a","c","i","n","g">>, value |-> <<"6","4","p","x">>,
   description |-> "64px"],
  [name |-> <<"r","a","d","i","u","s","/","s","m">>,
   category |-> <<"r","a","d","i","u","s">>, value |-> <<"4","p","x">>,
   description |-> "Small radius"],
  [name |-> <<"r","a","d","i","u","s","/","m","d">>,
   category |-> <<"r","a","d","i","u","s">>, value |-> <<"8","p","x">>,
   description |-> "Medium radius"],
  [name |-> <<"r","a","d","i","u","s","/","l","g">>,
   category |-> <<"r","a","d","i","u","s">>, value |-> <<"1","2","p","x">>,
   description |-> "Large radius"],
  [name |-> <<"r","a","d","i","u","s","/","x","l">>,
   category |-> <<"r","a","d","i","u","s">>, value |-> <<"1","6","p","x">>,
   description |-> "XL radius"],
  [name |-> <<"r","a","d","i","u","s","/","f","u","l","l">>,
   category |-> <<"r","a","d","i","u","s">>, value |-> <<"9","9","9","9","p","x">>,
   description |-> "Pill / full round"],
  [name |-> <<"t","y","p","o","g","r","a","p","h","y","/","s","i","z","e","/","x","s">>,
   category |-> <<"t","y","p","o","g","r","a","p","h","y">>, value |-> <<"0",".","7","5","r","e","m">>,
   description |-> "12px"],
  [name |-> <<"t","y","p","o","g","r","a","p","h","y","/","s","i","z","e","/","s","m">>,
   category |-> <<"t","y","p","o","g","r","a","p","h","y">>, value |-> <<"0",".","8","7","5","r","e","m">>,
   description |-> "14px"],
  [name |-> <<"t","y","p","o","g","r","a","p","h","y","/","s","i","z","e","/","m","d">>,
   category |-> <<"t","y","p","o","g","r","a","p","h","y">>, value |-> <<"1","r","e","m">>,
   description |-> "16px base"],
  [name |-> <<"t","y","p","o","g","r","a","p","h","y","/","s","i","z","e","/","l","g">>,
   category |-> <<"t","y","p","o","g","r","a","p","h","y">>, value |-> <<"1",".","1","2","5","r","e","m">>,
   description |-> "18px"],
  [name |-> <<"t","y","p","o","g","r","a","p","h","y","/","s","i","z","e","/","x","l">>,
   category |-> <<"t","y","p","o","g","r","a","p","h","y">>, value |-> <<"1",".","2","5","r","e","m">>,
   description |-> "20px"],
  [name |-> <<"t","y","p","o","g","r","a","p","h","y","/","s","i","z","e","/","2","x","l">>,
   category |-> <<"t","y","p","o","g","r","a","p","h","y">>, value |-> <<"1",".","5","r","e","m">>,
   description |-> "24px"],
  [name |-> <<"t","y","p","o","g","r","a","p","h","y","/","s","i","z","e","/","4","x","l">>,
   category |-> <<"t","y","p","o","g","r","a","p","h","y">>, value |-> <<"2",".","2","5","r","e","m">>,
   description |-> "36px"],
  [name |-> <<"s","h","a","d","o","w","/","s","m">>,
   category |-> <<"s","h","a","d","o","w">>, value |-> <<"0"," ","1","p","x"," ","2","p","x"," ","r","g","b","a","(","0",",","0",",","0",",","0",".","0","5",")">>,
   description |-> "Subtle shadow"],
  [name |-> <<"s","h","a","d","o","w","/","m","d">>,
   category |-> <<"s","h","a","d","o","w">>, value |-> <<"0"," ","4","p","x"," ","6","p","x"," ","-","1","p","x"," ","r","g","b","a","(","0",",","0",",","0",",","0",".","1",")">>,
   description |-> "Card shadow"],
  [name |-> <<"s","h","a","d","o","w","/","l","g">>,
   category |-> <<"s","h","a","d","o","w">>, value |-> <<"0"," ","1","0","p","x"," ","1","5","p","x"," ","-","3","p","x"," ","r","g","b","a","(","0",",","0",",","0",",","0",".","1",")">>,
   description |-> "Modal shadow"],
  [name |-> <<"s","h","a","d","o","w","/","x","l">>,
   category |-> <<"s","h","a","d","o","w">>, value |-> <<"0"," ","2","0","p","x"," ","2","5","p","x"," ","-","5","p","x"," ","r","g","b","a","(","0",",","0",",","0",",","0",".","1",")">>,
   description |-> "Overlay shadow"] >>

\* the catalogue that seed_defaults walks, cut to its first SeedLen entries
SEED_TOKENS == SubSeq(SEED_CATALOGUE, 1, SeedLen)

\* ---------------------------------------------------------------- validation
\* re.match(r"^#([0-9a-fA-F]{3}){1,2}$", v) or re.match(r"^#[0-9a-fA-F]{8}$", v)
IsHexColor(v) ==
  /\ Len(v) \in {4, 7, 9}
  /\ v[1] = "#"
  /\ \A i \in 2..Len(v) : v[i] \in HexDigits

ColorPrefixes == {<<"r","g","b","(">>, <<"r","g","b","a","(">>, <<"h","s","l","(">>, <<"h","s","l","a","(">>, <<"o","k","l","c","h","(">>, <<"c","o","l","o","r","(">>, <<"v","a","r","(","-","-">>}

ColorKeywords == {<<"t","r","a","n","s","p","a","r","e","n","t">>, <<"c","u","r","r","e","n","t","C","o","l","o","r">>, <<"i","n","h","e","r","i","t">>}

\* _is_valid_color: any pattern matches value.strip(), ignoring case
IsValidColor(value) ==
  LET v == Strip(value)
      l == Lower(v)
  IN  \/ IsHexColor(v)
      \/ \E p \in ColorPrefixes : StartsWith(l, Lower(p))
      \/ \E k \in ColorKeywords : l = Lower(k)

NameHeadChars == Digits \cup {LowerLetters[i] : i \in 1..26}

NameTailChars == NameHeadChars \cup {"-", ".", "/"}

NameBodyOk(s) ==
  /\ Len(s) >= 1
  /\ s[1] \in NameHeadChars
  /\ \A i \in 2..Len(s) : s[i] \in NameTailChars

\* re.match(r"^[a-z0-9][a-z0-9\-./]*$", name.lower()); in Python "$" also
\* matches just before a newline that ends the text
NameFormatOk(name) ==
  LET l == Lower(name) IN
  \/ NameBodyOk(l)
  \/ /\ l # <<>>
     /\ l[Len(l)] = "\n"
     /\ NameBodyOk(SubSeq(l, 1, Len(l) - 1))

SpacingUnits == {<<"p","x">>, <<"r","e","m">>, <<"e","m">>, <<"%">>, <<"v","w">>, <<"v","h">>}

\* re.match(r"^[\d.]+(?:px|rem|em|%|vw|vh)$", value.strip())
SpacingFormatOk(value) ==
  LET v == Strip(value) IN
  \E u \in SpacingUnits :
    /\ EndsWith(v, u)
    /\ Len(v) > Len(u)
    /\ \A i \in 1..(Len(v) - Len(u)) : v[i] \in Digits \cup {"."}

Err(kind, arg) == [kind |-> kind, arg |-> arg]

\* Token.validate: every rule is tried, the errors are collected in order.
\* An error is its rule and the text its message interpolates.
Validate(t) ==
     (IF t.name = <<>> THEN <<Err("name_required", <<>>)>> ELSE <<>>)
  \o (IF ~NameFormatOk(t.name) THEN <<Err("name_format", t.name)>> ELSE <<>>)
  \o (IF ~IsCategory(t.category) THEN <<Err("category", t.category)>> ELSE <<>>)
  \o (IF t.value = <<>> THEN <<Err("value_required", <<>>)>> ELSE <<>>)
  \o (IF t.category = <<"c","o","l","o","r">> /\ ~IsValidColor(t.value)
      THEN <<Err("color", t.value)>> ELSE <<>>)
  \o (IF /\ t.category = <<"s","p","a","c","i","n","g">>
         /\ ~SpacingFormatOk(t.value)
         /\ ~StartsWith(t.value, <<"v","a","r","(">>)
      THEN <<Err("spacing", t.value)>> ELSE <<>>)

\* -------------------------------------------------------------------- state
VARIABLES
  tokens,     \* the rows of table tokens
  snapshots,  \* the rows of table token_snapshots, in insertion (rowid) order
  now,        \* the reading of the UTC clock
  uuids,      \* how many uuid4() values have been stored so far
  calls,      \* how many calls have been made
  last        \* the last call: its operation, argument, outcome and result

vars == <<tokens, snapshots, now, uuids, calls, last>>

TokenFields == {"id", "name", "category", "value", "description", "aliases",
                "deprecated", "deprecated_reason", "tags", "created_at",
                "updated_at", "version"}

\* dataclass Token: the required fields and the defaults of the others
Token(id, name, category, value) ==
  [id |-> id, name |-> name, category |-> category, value |-> value,
   description |-> "", aliases |-> <<>>, deprecated |-> FALSE,
   deprecated_reason |-> "", tags |-> <<>>, created_at |-> NoTimestamp,
   updated_at |-> NoTimestamp, version |-> 1]

\* the parameter tuple of INSERT INTO tokens: lists are comma-joined, the
\* flag is an integer
TokenToRow(t) ==
  [id |-> t.id, name |-> t.name, category |-> t.category, value |-> t.value,
   description |-> t.description, aliases |-> Join(t.aliases, Comma),
   deprecated |-> IF t.deprecated THEN 1 ELSE 0,
   deprecated_reason |-> t.deprecated_reason, tags |-> Join(t.tags, Comma),
   created_at |-> t.created_at, updated_at |-> t.updated_at,
   version |-> t.version]

\* _row_to_token
RowToToken(row) ==
  [id |-> row.id, name |-> row.name, category |-> row.category,
   value |-> row.value, description |-> row.description,
   aliases |-> IF row.aliases # <<>> THEN Split(row.aliases, Comma) ELSE <<>>,
   deprecated |-> row.deprecated # 0,
   deprecated_reason |-> row.deprecated_reason,
   tags |-> IF row.tags # <<>> THEN Split(row.tags, Comma) ELSE <<>>,
   created_at |-> row.created_at, updated_at |-> row.updated_at,
   version |-> row.version]

\* mutant: the name column without its UNIQUE constraint
IntegrityErrorIdOnly(store, row) == \E r \in store : r.id = row.id

\* table tokens: id TEXT PRIMARY KEY, name TEXT NOT NULL UNIQUE.  An INSERT
\* that breaks either constraint raises sqlite3.IntegrityError.
IntegrityError(store, row) ==
  \E r \in store : r.id = row.id \/ r.name = row.name

\* the rows of  SELECT * FROM tokens WHERE id=? OR name=?
Matching(store, ref) == {r \in store : r.id = ref \/ r.name = ref}

\* str(uuid.uuid4()): the n-th identifier handed out; no two are equal and
\* none equals a text that was in use before it was drawn
DigitText == <<"0","1","2","3","4","5","6","7","8","9">>

Uuid(n) == <<"u", DigitText[(n \div 10) + 1], DigitText[(n % 10) + 1]>>

\* mutant: add_token without its validation gate
AddTokenUnchecked(store, token, time) ==
  LET stamped == [token EXCEPT
                    !.created_at = IF @ # NoTimestamp THEN @ ELSE time,
                    !.updated_at = time]
  IN  IF IntegrityError(store, TokenToRow(stamped))
      THEN [status |-> "DuplicateName", errors |-> <<>>,
            store |-> store, token |-> stamped]
      ELSE [status |-> "ok", errors |-> <<>>,
            store |-> store \cup {TokenToRow(stamped)}, token |-> stamped]

\* add_token on table contents `store` at clock reading `time`: the outcome,
\* the table afterwards and the token object as add_token leaves it
AddToken(store, token, time) ==
  LET errors == Validate(token)
      stamped == [token EXCEPT
                    !.created_at = IF @ # NoTimestamp THEN @ ELSE time,
                    !.updated_at = time]
  IN  IF errors # <<>>
      THEN [status |-> "ValidationError", errors |-> errors,
            store |-> store, token |-> token]
      ELSE IF IntegrityError(store, TokenToRow(stamped))
      THEN [status |-> "DuplicateName", errors |-> <<>>,
            store |-> store, token |-> stamped]
      ELSE [status |-> "ok", errors |-> <<>>,
            store |-> store \cup {TokenToRow(stamped)}, token |-> stamped]

\* ------------------------------------------------------------------ queries
\* get_token(name_or_id): fetchone() of a query with no ORDER BY returns any
\* one of the matching rows; the result is the set of tokens it may return,
\* empty for None
GetToken(store, ref) == {RowToToken(row) : row \in Matching(store, ref)}

\* mutant: ORDER BY name
RowBeforeByName(a, b) == TextLess(a.name, b.name)

\* ORDER BY category, name
RowBefore(a, b) ==
  \/ TextLess(a.category, b.category)
  \/ a.category = b.category /\ TextLess(a.name, b.name)

RECURSIVE OrderRows(_)
OrderRows(rows) ==
  IF rows = {} THEN <<>>
  ELSE LET first == CHOOSE r \in rows : \A q \in rows : ~RowBefore(q, r)
       IN  <<first>> \o OrderRows(rows \ {first})

\* list_tokens(category, include_deprecated); no category is the empty text
ListTokens(store, category, include_deprecated) ==
  LET rows == {r \in store :
                 /\ category # <<>> => r.category = category
                 /\ ~include_deprecated => r.deprecated = 0}
      ordered == OrderRows(rows)
  IN  [i \in 1..Len(ordered) |-> RowToToken(ordered[i])]

\* mutant: the sweep lists only the tokens that are not deprecated
ValidateAllLive(store) ==
  LET list == ListTokens(store, <<>>, FALSE)
      IsValid(t) == Validate(t) = <<>>
      IsInvalid(t) == Validate(t) # <<>>
      IsDeprecated(t) == t.deprecated
      valid == SelectSeq(list, IsValid)
      invalid == SelectSeq(list, IsInvalid)
      deprecated == SelectSeq(list, IsDeprecated)
  IN  [valid |-> [i \in 1..Len(valid) |-> valid[i].name],
       invalid |-> [i \in 1..Len(invalid) |->
                      [name |-> invalid[i].name, errors |-> Validate(invalid[i])]],
       deprecated |-> [i \in 1..Len(deprecated) |->
                         [name |-> deprecated[i].name,
                          reason |-> deprecated[i].deprecated_reason]],
       summary |-> [total |-> Len(list), valid |-> Len(valid),
                    invalid |-> Len(invalid), deprecated |-> Len(deprecated)]]

\* validate_all: every listed token is valid or invalid, and deprecated or not
ValidateAll(store) ==
  LET list == ListTokens(store, <<>>, TRUE)
      IsValid(t) == Validate(t) = <<>>
      IsInvalid(t) == Validate(t) # <<>>
      IsDeprecated(t) == t.deprecated
      valid == SelectSeq(list, IsValid)
      invalid == SelectSeq(list, IsInvalid)
      deprecated == SelectSeq(list, IsDeprecated)
  IN  [valid |-> [i \in 1..Len(valid) |-> valid[i].name],
       invalid |-> [i \in 1..Len(invalid) |->
                      [name |-> invalid[i].name, errors |-> Validate(invalid[i])]],
       deprecated |-> [i \in 1..Len(deprecated) |->
                         [name |-> deprecated[i].name,
                          reason |-> deprecated[i].deprecated_reason]],
       summary |-> [total |-> Len(list), valid |-> Len(valid),
                    invalid |-> Len(invalid), deprecated |-> Len(deprecated)]]

\* ---------------------------------------------------------------- snapshots
\* datetime.utcnow().strftime("%Y%m%d%H%M%S")
Strftime(time) == <<"2","0","2","6","0","1","0","1","0","0","0","0","0">> \o <<DigitText[time + 1]>>

\* _count_categories
CountCategories(list) ==
  [c \in {list[i].category : i \in 1..Len(list)} |->
     Cardinality({i \in 1..Len(list) : list[i].category = c})]

\* mutant: the snapshot leaves the deprecated tokens out
ExportJsonSnapshotLive(store, version, name, description, time) ==
  LET list == ListTokens(store, <<>>, FALSE) IN
  [version |-> IF version # <<>> THEN version ELSE Strftime(time),
   name |-> name, description |-> description, created_at |-> time,
   tokens |-> list,
   metadata |-> [count |-> Len(list),
                 categories |-> CountCategories(list),
                 deprecated_count |->
                   Cardinality({i \in 1..Len(list) : list[i].deprecated})]]

\* export_json_snapshot: TokenSet.to_dict() of the listed tokens.  json.dumps
\* and json.loads keep texts, integers, booleans and lists of them as they
\* are, so the stored document is the dictionary itself.
ExportJsonSnapshot(store, version, name, description, time) ==
  LET list == ListTokens(store, <<>>, TRUE) IN
  [version |-> IF version # <<>> THEN version ELSE Strftime(time),
   name |-> name, description |-> description, created_at |-> time,
   tokens |-> list,
   metadata |-> [count |-> Len(list),
                 categories |-> CountCategories(list),
                 deprecated_count |->
                   Cardinality({i \in 1..Len(list) : list[i].deprecated})]]

\* the row save_snapshot inserts into token_snapshots
SnapshotRow(store, sid, version, name, description, time) ==
  [id |-> sid, version |-> version, name |-> name,
   description |-> description,
   data |-> ExportJsonSnapshot(store, version, name, description, time),
   created_at |-> time]

\* the header list_snapshots builds from a row
SnapshotHeader(row) ==
  [id |-> row.id, version |-> row.version, name |-> row.name,
   description |-> row.description, created_at |-> row.created_at]

\* mutant: ORDER BY created_at ASC
SnapshotOrdersAscending(snaps) ==
  {p \in [1..Len(snaps) -> 1..Len(snaps)] :
     /\ \A i, j \in 1..Len(snaps) : p[i] = p[j] => i = j
     /\ \A i, j \in 1..Len(snaps) :
          i < j => snaps[p[i]].created_at <= snaps[p[j]].created_at}

\* the orders in which ORDER BY created_at DESC may return the rows: rows
\* of one created_at come in an order the query does not fix
SnapshotOrders(snaps) ==
  {p \in [1..Len(snaps) -> 1..Len(snaps)] :
     /\ \A i, j \in 1..Len(snaps) : p[i] = p[j] => i = j
     /\ \A i, j \in 1..Len(snaps) :
          i < j => snaps[p[i]].created_at >= snaps[p[j]].created_at}

\* list_snapshots(): the lists of headers it may return
ListSnapshots(snaps) ==
  {[i \in 1..Len(snaps) |-> SnapshotHeader(snaps[p[i]])] :
     p \in SnapshotOrders(snaps)}

\* the rows of  SELECT data FROM token_snapshots WHERE id=? OR version=?
\* in rowid order
SnapshotMatches(snaps, ref) ==
  {i \in 1..Len(snaps) : snaps[i].id = ref \/ snaps[i].version = ref}

\* the row fetchone() returns: the table is scanned in rowid order
FirstMatch(snaps, ref) ==
  CHOOSE i \in SnapshotMatches(snaps, ref) :
    \A j \in SnapshotMatches(snaps, ref) : i <= j

\* _load_snapshot_tokens: the name -> Token dictionary of the snapshot's
\* token list (a later entry of the same name replaces an earlier one);
\* defined when some snapshot matches
LoadSnapshotTokens(snaps, ref) ==
  LET list == snaps[FirstMatch(snaps, ref)].data.tokens IN
  [n \in {list[i].name : i \in 1..Len(list)} |->
     list[CHOOSE i \in 1..Len(list) :
            list[i].name = n /\ \A j \in 1..Len(list) : list[j].name = n => j <= i]]

\* {t.name: t for t in list_tokens()}: the live store as diff resolves it
CurrentTokens(store) ==
  LET list == ListTokens(store, <<>>, TRUE) IN
  [n \in {list[i].name : i \in 1..Len(list)} |->
     list[CHOOSE i \in 1..Len(list) :
            list[i].name = n /\ \A j \in 1..Len(list) : list[j].name = n => j <= i]]

\* --------------------------------------------------------------------- diff
\* the keyword that stands for the live store
Current == <<"c","u","r","r","e","n","t">>

\* whether diff._get returns: "current" always does, any other reference
\* raises KeyError unless a snapshot matches it
Resolvable(snaps, ref) == ref = Current \/ SnapshotMatches(snaps, ref) # {}

\* mutant: every reference is answered from the live store
ResolveLive(store, snaps, ref) == CurrentTokens(store)

\* diff._get: the name -> Token dictionary a reference stands for
Resolve(store, snaps, ref) ==
  IF ref = Current THEN CurrentTokens(store)
  ELSE LoadSnapshotTokens(snaps, ref)

\* mutant: any difference between the two tokens counts
DiffersAnywhere(ta, tb) == ta # tb

\* the comparison of diff's loop
Differs(ta, tb) ==
  \/ ta.value # tb.value
  \/ ta.category # tb.category
  \/ ta.deprecated # tb.deprecated

\* mutant: the names of a that b lacks
DiffAddedSwapped(a, b) == [n \in DOMAIN a \ DOMAIN b |-> a[n]]

\* added = {n: asdict(b[n]) for n in b if n not in a}
DiffAdded(a, b) == [n \in DOMAIN b \ DOMAIN a |-> b[n]]

\* removed = {n: asdict(a[n]) for n in a if n not in b}
DiffRemoved(a, b) == [n \in DOMAIN a \ DOMAIN b |-> a[n]]

\* mutant: before and after taken from the wrong sides
DiffChangedSwapped(a, b) ==
  [n \in {m \in DOMAIN a \cap DOMAIN b : Differs(a[m], b[m])} |->
     [before |-> [value |-> b[n].value, category |-> b[n].category,
                  deprecated |-> b[n].deprecated],
      after |-> [value |-> a[n].value, category |-> a[n].category,
                 deprecated |-> a[n].deprecated]]]

\* the changed dictionary diff's loop builds
DiffChanged(a, b) ==
  [n \in {m \in DOMAIN a \cap DOMAIN b : Differs(a[m], b[m])} |->
     [before |-> [value |-> a[n].value, category |-> a[n].category,
                  deprecated |-> a[n].deprecated],
      after |-> [value |-> b[n].value, category |-> b[n].category,
                 deprecated |-> b[n].deprecated]]]

\* mutant: the counter counts every shared name
DiffUnchangedShared(a, b) == Cardinality(DOMAIN a \cap DOMAIN b)

\* the unchanged counter diff's loop keeps
DiffUnchanged(a, b) ==
  Cardinality({n \in DOMAIN a \cap DOMAIN b : ~Differs(a[n], b[n])})

\* diff(snapshot_id_a, snapshot_id_b)
Diff(store, snaps, refA, refB) ==
  IF ~Resolvable(snaps, refA) \/ ~Resolvable(snaps, refB)
  THEN [status |-> "NotFound"]
  ELSE LET a == Resolve(store, snaps, refA)
           b == Resolve(store, snaps, refB)
           added == DiffAdded(a, b)
           removed == DiffRemoved(a, b)
           changed == DiffChanged(a, b)
       IN  [status |-> "ok", a |-> refA, b |-> refB,
            summary |-> [added |-> Cardinality(DOMAIN added),
                         removed |-> Cardinality(DOMAIN removed),
                         changed |-> Cardinality(DOMAIN changed),
                         unchanged |-> DiffUnchanged(a, b)],
            added |-> added, removed |-> removed, changed |-> changed]

\* ------------------------------------------------------------------ exports
\* str.upper() on one character
UpperChar(c) ==
  IF c \in {LowerLetters[i] : i \in 1..26}
  THEN UpperLetters[CHOOSE i \in 1..26 : LowerLetters[i] = c]
  ELSE c

IsLetter(c) == LowerChar(c) # c \/ UpperChar(c) # c

\* str.title(): a letter after a letter is lowered, any other letter raised
Title(s) ==
  [i \in 1..Len(s) |->
     IF i > 1 /\ IsLetter(s[i - 1]) THEN LowerChar(s[i]) ELSE UpperChar(s[i])]

\* _slug: lower(), then "/", "." and " " become "-"
Slug(name) ==
  [i \in 1..Len(name) |->
     IF name[i] \in {"/", ".", " "} THEN "-" ELSE LowerChar(name[i])]

DefaultPrefix == <<"-","-","b","r">>

\* Token.to_css_var
ToCssVar(t, prefix) == prefix \o <<"-">> \o Slug(t.name)

CamelSeparators == {"-", "/", ".", " "}

\* re.split(r"[-/. ]+", name): the texts between the runs of separators
RECURSIVE SplitRuns(_)
SplitRuns(text) ==
  IF \E i \in 1..Len(text) : text[i] \in CamelSeparators
  THEN LET k == CHOOSE i \in 1..Len(text) :
                  /\ text[i] \in CamelSeparators
                  /\ \A j \in 1..(i - 1) : text[j] \notin CamelSeparators
           m == CHOOSE i \in k..Len(text) :
                  /\ \A j \in k..i : text[j] \in CamelSeparators
                  /\ i = Len(text) \/ text[i + 1] \notin CamelSeparators
       IN  <<SubSeq(text, 1, k - 1)>> \o SplitRuns(SubSeq(text, m + 1, Len(text)))
  ELSE <<text>>

RECURSIVE Concat(_)
Concat(texts) == IF texts = <<>> THEN <<>> ELSE Head(texts) \o Concat(Tail(texts))

\* _camel and Token.to_js_key
Camel(name) ==
  LET parts == SplitRuns(name) IN
  Lower(parts[1]) \o Concat([i \in 1..(Len(parts) - 1) |-> Title(parts[i + 1])])

\* json.dumps of a text: quoted, the control characters escaped
JsonText(value) ==
  <<"\"">>
  \o Concat([i \in 1..Len(value) |->
               IF value[i] = "\t" THEN <<"\\", "t">>
               ELSE IF value[i] = "\n" THEN <<"\\", "n">>
               ELSE IF value[i] = "\r" THEN <<"\\", "r">>
               ELSE IF value[i] = "\f" THEN <<"\\", "f">>
               ELSE <<value[i]>>])
  \o <<"\"">>

\* one line of an export: what it is, the token it was written for, the
\* key and the value it holds, and the comment it carries
Line(kind, token, key, value, note) ==
  [kind |-> kind, token |-> token, key |-> key, value |-> value, note |-> note]

Plain(kind) == Line(kind, <<>>, <<>>, <<>>, "")

\* sorted(by_cat): the categories of the listed tokens in ascending order
RECURSIVE SortTexts(_)
SortTexts(texts) ==
  IF texts = {} THEN <<>>
  ELSE LET first == CHOOSE a \in texts : \A b \in texts : ~TextLess(b, a)
       IN  <<first>> \o SortTexts(texts \ {first})

ListedCategories(list) == SortTexts({list[i].category : i \in 1..Len(list)})

\* by_cat[cat]: the listed tokens of one category, in list order
ByCat(list, cat) == SelectSeq(list, LAMBDA t : t.category = cat)

\* the lines export_css writes for one token
CssTokenLines(t, prefix) ==
     (IF t.description # ""
      THEN <<Line("comment", t.name, <<>>, <<>>, t.description)>> ELSE <<>>)
  \o <<Line("var", t.name, ToCssVar(t, prefix), t.value,
            IF t.deprecated THEN "@deprecated" ELSE "")>>
  \o [i \in 1..Len(t.aliases) |->
        Line("alias", t.name, prefix \o <<"-">> \o Slug(t.aliases[i]),
             <<"v","a","r","(">> \o ToCssVar(t, prefix) \o <<")">>, "alias")]

\* export_css(prefix, category, include_deprecated), line by line
ExportCss(store, prefix, category, include_deprecated) ==
  LET list == ListTokens(store, category, include_deprecated)
      cats == ListedCategories(list)
  IN  IF list = <<>> THEN <<Plain("none")>>
      ELSE <<Plain("open")>>
           \o Concat([c \in 1..Len(cats) |->
                <<Line("category", <<>>, cats[c], <<>>, "")>>
                \o Concat([i \in 1..Len(ByCat(list, cats[c])) |->
                             CssTokenLines(ByCat(list, cats[c])[i], prefix)])
                \o <<Plain("blank")>>])
           \o <<Plain("close")>>

\* the lines export_js writes for one token among the constants
JsTokenLines(t) ==
     (IF t.description # ""
      THEN <<Line("doc", t.name, <<>>, <<>>, t.description)>> ELSE <<>>)
  \o <<Line("const", t.name, Camel(t.name), JsonText(t.value), "")>>

\* export_js(module_name, category) at clock reading `time`, line by line:
\* the header, the constants by category, the grouped object
ExportJs(store, category, time) ==
  LET list == ListTokens(store, category, FALSE)
      cats == ListedCategories(list)
  IN  <<Line("generated", <<>>, <<>>, <<time>>, ""), Plain("notice"), Plain("blank")>>
      \o Concat([c \in 1..Len(cats) |->
           <<Line("category", <<>>, cats[c], <<>>, "")>>
           \o Concat([i \in 1..Len(ByCat(list, cats[c])) |->
                        JsTokenLines(ByCat(list, cats[c])[i])])
           \o <<Plain("blank")>>])
      \o <<Plain("doc"), Plain("open")>>
      \o Concat([c \in 1..Len(cats) |->
           <<Line("group", <<>>, cats[c], <<>>, "")>>
           \o [i \in 1..Len(ByCat(list, cats[c])) |->
                 Line("member", ByCat(list, cats[c])[i].name,
                      Camel(ByCat(list, cats[c])[i].name),
                      JsonText(ByCat(list, cats[c])[i].value), "")]
           \o <<Plain("endgroup")>>])
      \o <<Plain("close")>>

\* the sections of the theme configuration, in the order tw is built
TailwindSections ==
  <<"colors", "spacing", "fontSize", "borderRadius", "boxShadow", "opacity",
    "zIndex", "screens", "transitionDuration">>

\* _CAT_MAP: the section of a category; border has none
CatMap ==
  (CATEGORIES[1] :> "colors") @@ (CATEGORIES[2] :> "spacing")
  @@ (CATEGORIES[3] :> "fontSize") @@ (CATEGORIES[5] :> "borderRadius")
  @@ (CATEGORIES[4] :> "boxShadow") @@ (CATEGORIES[6] :> "opacity")
  @@ (CATEGORIES[7] :> "zIndex") @@ (CATEGORIES[8] :> "screens")
  @@ (CATEGORIES[9] :> "transitionDuration")

\* _slug(t.name).split("-")[-1]
TailwindKey(t) ==
  LET parts == Split(Slug(t.name), <<"-">>) IN parts[Len(parts)]

\* tw[section] after the loop over the listed tokens: under each key the
\* token assigned last
TailwindSection(list, section) ==
  LET mine == SelectSeq(list, LAMBDA t : /\ t.category \in DOMAIN CatMap
                                          /\ CatMap[t.category] = section)
  IN  [k \in {TailwindKey(mine[i]) : i \in 1..Len(mine)} |->
         mine[CHOOSE i \in 1..Len(mine) :
                /\ TailwindKey(mine[i]) = k
                /\ \A j \in 1..Len(mine) : TailwindKey(mine[j]) = k => j <= i]]

\* export_tailwind_config() at clock reading `time`, line by line: the
\* sections that are not empty, each with its keys in ascending order
ExportTailwind(store, time) ==
  LET list == ListTokens(store, <<>>, FALSE)
      filled == SelectSeq(TailwindSections,
                          LAMBDA x : DOMAIN TailwindSection(list, x) # {})
  IN  <<Plain("type"), Plain("notice"), Line("generated", <<>>, <<>>, <<time>>, ""),
        Plain("open")>>
      \o Concat([x \in 1..Len(filled) |->
           LET section == TailwindSection(list, filled[x])
               keys == SortTexts(DOMAIN section)
           IN  <<Line("section", <<>>, <<>>, <<>>, filled[x])>>
               \o [i \in 1..Len(keys) |->
                     Line("entry", section[keys[i]].name, keys[i],
                          section[keys[i]].value, "")]
               \o <<Plain("endsection")>>])
      \o <<Plain("close")>>

\* ------------------------------------------------------------- import, seed
AlreadyExists == <<"a","l","r","e","a","d","y"," ","e","x","i","s","t","s">>

\* mutant: the duplicate is never recognised
MentionsAlreadyExistsNever(out) == FALSE

\* "already exists" in str(e): the message of the duplicate always holds it;
\* the message of a validation failure holds it when a text it quotes does
MentionsAlreadyExists(out) ==
  \/ out.status = "DuplicateName"
  \/ \E i \in 1..Len(out.errors) : Contains(out.errors[i].arg, AlreadyExists)

\* spec.get(key1, spec.get(key2, default))
GetEither(spec, key1, key2, default) ==
  IF key1 \in DOMAIN spec THEN spec[key1]
  ELSE IF key2 \in DOMAIN spec THEN spec[key2]
  ELSE default

\* the Token import_json builds from one entry of the mapping
ImportToken(name, spec, id, time) ==
  LET declared == GetEither(spec, "$type", "category", color)
      base == Token(id, name,
                    IF IsCategory(declared) THEN declared ELSE color,
                    GetEither(spec, "$value", "value", <<>>))
  IN  [base EXCEPT
         !.description = GetEither(spec, "$description", "description", ""),
         !.tags = IF "tags" \in DOMAIN spec THEN spec["tags"] ELSE <<>>,
         !.created_at = time, !.updated_at = time]

\* the loop of import_json over the entries in file order: an entry whose
\* spec is no dictionary is passed over; n counts the identifiers stored.
\* add_token validates, then joins the tags for its INSERT: tags that are
\* not texts pass validation and make ",".join raise TypeError, which
\* import_json does not catch, so the loop ends there.
RECURSIVE ImportLoop(_, _, _, _)
ImportLoop(entries, acc, n, time) ==
  IF entries = <<>> THEN [acc EXCEPT !.uuids = n]
  ELSE
    LET e == Head(entries) IN
    IF ~e.dict THEN ImportLoop(Tail(entries), acc, n, time)
    ELSE
      LET out == AddToken(acc.store, ImportToken(e.name, e.spec, Uuid(n + 1), time),
                          time)
      IN  IF ~e.texts /\ out.status # "ValidationError"
          THEN [acc EXCEPT !.raised = "TypeError", !.uuids = n]
          ELSE IF out.status = "ok"
          THEN ImportLoop(Tail(entries),
                          [acc EXCEPT !.store = out.store, !.added = @ + 1],
                          n + 1, time)
          ELSE IF MentionsAlreadyExists(out)
          THEN ImportLoop(Tail(entries), [acc EXCEPT !.skipped = @ + 1], n, time)
          ELSE ImportLoop(Tail(entries),
                          [acc EXCEPT !.errors = Append(@, out.errors)], n, time)

\* import_json on table contents `store`: (added, skipped, errors) or the
\* exception it raised, the table afterwards and the identifiers stored
ImportJson(store, entries, n, time) ==
  ImportLoop(entries,
             [store |-> store, added |-> 0, skipped |-> 0, errors |-> <<>>,
              raised |-> "", uuids |-> n],
             n, time)

\* the Token seed_defaults builds from one entry of SEED_TOKENS
SeedToken(spec, id, time) ==
  [Token(id, spec.name, spec.category, spec.value) EXCEPT
     !.description = spec.description,
     !.created_at = time, !.updated_at = time]

\* mutant: the first ValueError ends the loop
RECURSIVE SeedLoopStopping(_, _, _, _)
SeedLoopStopping(specs, acc, n, time) ==
  IF specs = <<>> THEN [acc EXCEPT !.uuids = n]
  ELSE
    LET out == AddToken(acc.store, SeedToken(Head(specs), Uuid(n + 1), time), time)
    IN  IF out.status = "ok"
        THEN SeedLoopStopping(Tail(specs),
                              [acc EXCEPT !.store = out.store, !.added = @ + 1],
                              n + 1, time)
        ELSE [acc EXCEPT !.uuids = n]

\* the loop of seed_defaults: every ValueError is swallowed
RECURSIVE SeedLoop(_, _, _, _)
SeedLoop(specs, acc, n, time) ==
  IF specs = <<>> THEN [acc EXCEPT !.uuids = n]
  ELSE
    LET out == AddToken(acc.store, SeedToken(Head(specs), Uuid(n + 1), time), time)
    IN  IF out.status = "ok"
        THEN SeedLoop(Tail(specs),
                      [acc EXCEPT !.store = out.store, !.added = @ + 1],
                      n + 1, time)
        ELSE SeedLoop(Tail(specs), acc, n, time)

SeedDefaults(store, n, time) ==
  SeedLoop(SEED_TOKENS, [store |-> store, added |-> 0, uuids |-> n], n, time)

\* ------------------------------------------------------------------- inputs
id1 == <<"i","1">>
id2 == <<"i","2">>
nameA == <<"c","/","a">>

\* a color token whose alias holds a comma and whose only tag is empty
TokenA ==
  [Token(id1, nameA, color, <<"#","f","f","f">>) EXCEPT
     !.aliases = <<<<"x",",","y">>>>, !.tags = <<<<>>>>]

\* a spacing token named like TokenA's id, built by its caller as a
\* deprecated third version created after every clock reading
TokenB ==
  [Token(id2, id1, spacing, <<"4","p","x">>) EXCEPT
     !.version = 3, !.created_at = MaxTime + 1, !.deprecated = TRUE]

\* the tokens callers pass to add_token
AddInputs ==
  { TokenA, TokenB,
    Token(id2, nameA, color, <<"#","0","0","0">>),   \* TokenA's name, TokenB's id
    Token(id1, <<>>, <<"w","e","i","r","d">>, <<>>) }    \* several errors at once

\* the references callers look tokens up by
Refs == {id1, nameA, <<"n","o","n","e">>}

\* the keyword arguments callers pass to update_token
UpdateInputs ==
  { [value |-> <<"#","0","0","0">>],
    [deprecated |-> TRUE, deprecated_reason |-> "old", description |-> "new",
     aliases |-> <<<<"x",",","y">>>>],
    [category |-> spacing, value |-> <<"8","p","x">>],
    [id |-> id2, value |-> <<"#","0","0","0">>],
    [version |-> 0] }

\* the patches made between two sides of a diff: those above, one that
\* touches only fields diff does not compare, one that only deprecates
DiffPatches ==
  UpdateInputs \cup
  { [description |-> "new", aliases |-> <<<<"x",",","y">>>>],
    [deprecated |-> TRUE, deprecated_reason |-> "old"] }

\* an entry of the imported mapping whose spec is a dictionary
Entry(name, spec) == [name |-> name, dict |-> TRUE, texts |-> TRUE, spec |-> spec]

\* an entry whose spec is a dictionary with "tags": [1]; the number is
\* left out of `spec`
NumberTagged(name, spec) ==
  [name |-> name, dict |-> TRUE, texts |-> FALSE, spec |-> spec]

\* the mappings callers import, as their entries in file order
ImportInputs ==
  { << Entry(nameA, ("$value" :> <<"#","f","f","f">>) @@ ("$type" :> color)
                    @@ ("$description" :> "Blue")),
       Entry(<<"s","/","1">>, ("value" :> <<"4","p","x">>) @@ ("category" :> spacing)) >>,
    << Entry(<<"a","l","r","e","a","d","y"," ","e","x","i","s","t","s">>, ("$value" :> <<"#","f","f","f">>)),
       [name |-> <<"f","l","a","t">>, dict |-> FALSE, texts |-> TRUE, spec |-> <<>>],
       Entry(<<"b","a","d">>, ("$value" :> <<"b","l","u","e">>) @@ ("$type" :> color)),
       Entry(<<"p","/","1">>, ("$value" :> <<"#","0","0","0">>) @@ ("$type" :> <<"p","a","d">>)
                    @@ ("tags" :> <<<<"t">>>>)),
       Entry(SEED_CATALOGUE[1].name, ("value" :> <<"#","0","0","0">>)) >> }

\* the files imported in batch runs: those above, and one whose second entry
\* carries a number among its tags
BatchInputs ==
  ImportInputs \cup
  { << Entry(<<"p","/","1">>, ("$value" :> <<"#","0","0","0">>)),
       NumberTagged(<<"x","/","1">>, ("$value" :> <<"#","f","f","f">>)),
       Entry(<<"x","/","2">>, ("$value" :> <<"#","f","f","f">>)) >> }

\* the version labels callers pass to save_snapshot: "" asks for a derived
\* one; an identifier can be passed once it has been handed out
SnapshotLabels == IF uuids >= 1 THEN {<<>>, Uuid(1)} ELSE {<<>>}

\* ------------------------------------------------------------------ actions
\* a call: the operation, its arguments, how it ended, what it returned
Call(op, arg, status, ret) ==
  [op |-> op, arg |-> arg, status |-> status, ret |-> ret]

Init ==
  /\ tokens = {}
  /\ snapshots = <<>>
  /\ now = 1
  /\ uuids = 0
  /\ calls = 0
  /\ last = Call("init", <<>>, "ok", <<>>)

\* the clock moves on between calls
Tick ==
  /\ now < MaxTime
  /\ now' = now + 1
  /\ UNCHANGED <<tokens, snapshots, uuids, calls, last>>

\* one more call is made
Called ==
  /\ calls < MaxCalls
  /\ calls' = calls + 1

\* add_token(token)
Add(token) ==
  LET out == AddToken(tokens, token, now) IN
  /\ Called
  /\ tokens' = out.store
  /\ last' = Call("add", <<token>>, out.status,
                  IF out.status = "ok" THEN <<out.token>> ELSE <<>>)
  /\ UNCHANGED <<snapshots, now, uuids>>

\* mutant: DELETE ... WHERE id=?
DeleteTokenById(store, ref) ==
  [store |-> {r \in store : r.id # ref},
   removed |-> \E r \in store : r.id = ref]

\* delete_token(name_or_id): DELETE ... WHERE id=? OR name=?; rowcount > 0
DeleteToken(store, ref) ==
  [store |-> store \ Matching(store, ref),
   removed |-> Matching(store, ref) # {}]

Delete(ref) ==
  LET out == DeleteToken(tokens, ref) IN
  /\ Called
  /\ tokens' = out.store
  /\ last' = Call("delete", <<ref>>, "ok", <<out.removed>>)
  /\ UNCHANGED <<snapshots, now, uuids>>

\* update_token lines 213-217: setattr for every keyword that names an
\* attribute, then the new updated_at and version
Patched(token, fields, time) ==
  [k \in TokenFields |->
     IF k = "updated_at" THEN time
     ELSE IF k = "version"
     THEN (IF k \in DOMAIN fields THEN fields[k] ELSE token[k]) + 1
     ELSE IF k \in DOMAIN fields THEN fields[k] ELSE token[k]]

\* the UPDATE statement of update_token: the mutable columns of the rows
\* WHERE id = token.id
UpdateRows(store, token) ==
  LET new == TokenToRow(token) IN
  { IF r.id = token.id
    THEN [r EXCEPT !.category = new.category, !.value = new.value,
                   !.description = new.description, !.aliases = new.aliases,
                   !.deprecated = new.deprecated,
                   !.deprecated_reason = new.deprecated_reason,
                   !.tags = new.tags, !.updated_at = new.updated_at,
                   !.version = new.version]
    ELSE r : r \in store }

\* mutant: the UPDATE runs before the validation gate
UpdateTokenWriteFirst(store, row, fields, time) ==
  LET token == Patched(RowToToken(row), fields, time) IN
  [status |-> IF Validate(token) # <<>> THEN "ValidationError" ELSE "ok",
   store |-> UpdateRows(store, token), token |-> token]

\* update_token once the lookup has fetched `row`: the patch, the validation
\* gate, the UPDATE
UpdateToken(store, row, fields, time) ==
  LET token == Patched(RowToToken(row), fields, time) IN
  IF Validate(token) # <<>>
  THEN [status |-> "ValidationError", store |-> store, token |-> token]
  ELSE [status |-> "ok", store |-> UpdateRows(store, token), token |-> token]

\* update_token(name_or_id, **fields): fetchone() returns any one of the
\* matching rows; the call is remembered with the row it fetched
Update(ref, fields) ==
  /\ Called
  /\ \/ /\ Matching(tokens, ref) = {}
        /\ tokens' = tokens
        /\ last' = Call("update", <<ref>>, "NotFound", <<>>)
     \/ \E row \in Matching(tokens, ref) :
          LET out == UpdateToken(tokens, row, fields, now) IN
          /\ tokens' = out.store
          /\ last' = Call("update", <<ref, row>>, out.status,
                          IF out.status = "ok" THEN <<out.token>> ELSE <<>>)
  /\ UNCHANGED <<snapshots, now, uuids>>

\* import_json(path) of a file holding the mapping `entries`
Import(entries) ==
  LET out == ImportJson(tokens, entries, uuids, now) IN
  /\ Called
  /\ tokens' = out.store
  /\ uuids' = out.uuids
  /\ last' = IF out.raised # ""
             THEN Call("import", <<entries>>, out.raised, <<>>)
             ELSE Call("import", <<entries>>, "ok",
                       <<out.added, out.skipped, out.errors>>)
  /\ UNCHANGED <<snapshots, now>>

\* seed_defaults()
Seed ==
  LET out == SeedDefaults(tokens, uuids, now) IN
  /\ Called
  /\ tokens' = out.store
  /\ uuids' = out.uuids
  /\ last' = Call("seed", <<>>, "ok", <<out.added>>)
  /\ UNCHANGED <<snapshots, now>>

\* save_snapshot(version, name, description)
Snapshot(version, name, description) ==
  LET sid == Uuid(uuids + 1) IN
  /\ Called
  /\ snapshots' = Append(snapshots,
                         SnapshotRow(tokens, sid, version, name, description, now))
  /\ uuids' = uuids + 1
  /\ last' = Call("snapshot", <<version, name, description>>, "ok", <<sid>>)
  /\ UNCHANGED <<tokens, now>>

Next ==
  \/ Tick
  \/ \E token \in AddInputs : Add(token)
  \/ \E ref \in Refs : Delete(ref)
  \/ \E ref \in Refs, fields \in UpdateInputs : Update(ref, fields)
  \/ \E entries \in ImportInputs : Import(entries)
  \/ Seed
  \/ \E version \in SnapshotLabels : Snapshot(version, "snapshot", "")

Spec == Init /\ [][Next]_vars

\* the calls that build what diff compares: single tokens added, updated and
\* deleted, and snapshots saved in between
NextDiff ==
  \/ Tick
  \/ \E token \in AddInputs : Add(token)
  \/ \E ref \in Refs : Delete(ref)
  \/ \E ref \in Refs, fields \in DiffPatches : Update(ref, fields)
  \/ \E version \in SnapshotLabels : Snapshot(version, "snapshot", "")

SpecDiff == Init /\ [][NextDiff]_vars

\* the calls that fill the store in batches: import and seeding, among
\* single adds and deletes
NextBatch ==
  \/ Tick
  \/ \E token \in AddInputs : Add(token)
  \/ \E ref \in Refs : Delete(ref)
  \/ \E entries \in BatchInputs : Import(entries)
  \/ Seed

SpecBatch == Init /\ [][NextBatch]_vars

\* the tokens of a small theme: two colors whose names end alike, one of
\* them with an alias, and a described spacing
ExportInputs ==
  { TokenA,
    Token(id2, <<"x","/","a">>, color, <<"#","0","0","0">>),
    [Token(<<"i","3">>, <<"s","/","1">>, spacing, <<"4","p","x">>) EXCEPT
       !.description = "gap"] }

ExportRefs == {t.name : t \in ExportInputs}

\* a token is deprecated, restored, recolored
ExportPatches ==
  { [deprecated |-> TRUE, deprecated_reason |-> "old"],
    [deprecated |-> FALSE],
    [value |-> <<"#","0","0","0">>] }

\* the calls that shape what the exports render
NextExport ==
  \/ Tick
  \/ \E token \in ExportInputs : Add(token)
  \/ \E ref \in ExportRefs : Delete(ref)
  \/ \E ref \in ExportRefs, fields \in ExportPatches : Update(ref, fields)

SpecExport == Init /\ [][NextExport]_vars

\* ------------------------------------------------------------------- claims
\* this step is a call, and `last'` describes it
IsCall(op) == calls' = calls + 1 /\ last'.op = op

NamePresent(store, name) == \E r \in store : r.name = name

NamesUnique == \A r1, r2 \in tokens : r1.name = r2.name => r1 = r2

\* C1: no two tokens of the live store ever share a name, whatever calls are
\* made; an add_token whose name is already present fails and leaves the
\* store as it was, and it fails with the duplicate-name error whenever the
\* token passes validation (validation is tried first).
C1_NamesUnique ==
  [][ /\ NamesUnique'
      /\ (IsCall("add") /\ NamePresent(tokens, last'.arg[1].name))
           => /\ last'.status # "ok"
              /\ tokens' = tokens
              /\ Validate(last'.arg[1]) = <<>> => last'.status = "DuplicateName"
    ]_vars

\* a valid token was refused for its name alone, and the store still holds
\* one record of that name
C1_Witness ==
  /\ last.op = "add"
  /\ last.status = "DuplicateName"
  /\ Cardinality({r \in tokens : r.name = last.arg[1].name}) = 1
  /\ \A r \in tokens : r.id # last.arg[1].id

\* C2: when save_snapshot returns id S, resolving S gives the name -> Token
\* mapping of the live store at that moment, and no later call changes what
\* S (or any earlier snapshot id) resolves to.
C2_SnapshotsImmutable ==
  [][ /\ IsCall("snapshot")
           => LoadSnapshotTokens(snapshots', last'.ret[1]) = CurrentTokens(tokens)
      /\ \A i \in 1..Len(snapshots) :
           /\ Len(snapshots') >= i
           /\ LoadSnapshotTokens(snapshots', snapshots[i].id)
                = LoadSnapshotTokens(snapshots, snapshots[i].id)
    ]_vars

\* a snapshot that holds a deprecated token, and a live store that has moved
\* on since
C2_Witness ==
  /\ last.op \in {"update", "delete", "add", "import", "seed"}
  /\ \E i \in 1..Len(snapshots) :
       /\ \E k \in 1..Len(snapshots[i].data.tokens) :
            snapshots[i].data.tokens[k].deprecated
       /\ LoadSnapshotTokens(snapshots, snapshots[i].id) # CurrentTokens(tokens)

\* C3: an update_token that fails, with NotFound or with a validation error,
\* leaves every stored token as it was.
C3_FailedUpdateChangesNothing ==
  [][ (IsCall("update") /\ last'.status # "ok") => tokens' = tokens ]_vars

\* an update of an existing token was refused by validation
C3_Witness ==
  /\ last.op = "update"
  /\ last.status = "ValidationError"
  /\ last.arg[2] \in tokens

\* C4: every successful update_token stores the fetched token's version plus
\* one and an updated_at not before its created_at, and no update lowers the
\* stored version of any token.
C4_UpdateIncrementsVersion ==
  [][ (IsCall("update") /\ last'.status = "ok")
        => /\ \A r \in tokens' :
                r.id = last'.arg[2].id
                  => /\ r.version = last'.arg[2].version + 1
                     /\ r.updated_at >= r.created_at
           /\ \A r \in tokens, q \in tokens' :
                q.id = r.id => q.version >= r.version
    ]_vars

\* C5: the record a successful add_token persists has version 1 and both
\* timestamps equal to the clock reading of the add.
C5_AddStoresVersionOne ==
  [][ (IsCall("add") /\ last'.status = "ok")
        => \A r \in tokens' :
             r.name = last'.arg[1].name
               => r.version = 1 /\ r.created_at = now /\ r.updated_at = now
    ]_vars

\* C6: a successful update_token leaves the fetched token's id, name,
\* category and created_at as they were and changes no other token.
C6_UpdateFrame ==
  [][ (IsCall("update") /\ last'.status = "ok")
        => \E after \in tokens' :
             /\ after.id = last'.arg[2].id
             /\ after.name = last'.arg[2].name
             /\ after.category = last'.arg[2].category
             /\ after.created_at = last'.arg[2].created_at
             /\ tokens' \ {after} = tokens \ {last'.arg[2]}
    ]_vars

\* C7: after a successful add_token(t), get_token(t.id) and
\* get_token(t.name) return a token equal in every field to the one
\* add_token returned.
C7_AddGetRoundTrip ==
  (last.op = "add" /\ last.status = "ok")
    => \A ref \in {last.ret[1].id, last.ret[1].name} :
         GetToken(tokens, ref) = {last.ret[1]}

\* C8: add_token of a valid token succeeds exactly when its name is not in
\* the store, and reports the duplicate name only when the name is present.
C8_AddSucceedsOnFreshName ==
  [][ (IsCall("add") /\ Validate(last'.arg[1]) = <<>>)
        => /\ last'.status = "ok" <=> ~NamePresent(tokens, last'.arg[1].name)
           /\ last'.status = "DuplicateName"
                => NamePresent(tokens, last'.arg[1].name)
    ]_vars

\* C9: delete_token(x) raises nothing and returns true exactly when some
\* live token has id or name x; afterwards get_token(x) finds nothing; when
\* it returns false the store is unchanged; the snapshots are never touched.
C9_Delete ==
  [][ IsCall("delete")
        => /\ last'.status = "ok"
           /\ last'.ret[1] <=> \E r \in tokens : r.id = last'.arg[1]
                                               \/ r.name = last'.arg[1]
           /\ GetToken(tokens', last'.arg[1]) = {}
           /\ ~last'.ret[1] => tokens' = tokens
           /\ snapshots' = snapshots
    ]_vars

\* a token in a snapshot was deleted from the live store by its name, while
\* another token stays
C9_Witness ==
  /\ last.op = "delete"
  /\ last.ret[1]
  /\ tokens # {}
  /\ \E i \in 1..Len(snapshots) :
       \E k \in 1..Len(snapshots[i].data.tokens) :
         snapshots[i].data.tokens[k].name = last.arg[1]

\* C10: every token of the live store passes validation, whatever calls are
\* made: the validate_all sweep counts no invalid token.
C10_StoreValid == ValidateAll(tokens).summary.invalid = 0

\* an update patched with another token's id has rewritten that other token
C10_Witness ==
  /\ last.op = "update"
  /\ last.status = "ok"
  /\ last.ret[1].id # last.arg[2].id
  /\ \E r \in tokens :
       /\ r.id = last.ret[1].id
       /\ r.name # last.arg[2].name
       /\ r.category = last.ret[1].category
       /\ r.value = last.ret[1].value
  /\ ValidateAll(tokens).summary.total = 2

\* the references a caller can hand to diff: the keyword, a text that names
\* nothing, and the id and the stored label of every saved snapshot
DiffRefs ==
  {Current, <<"n","o","n","e">>}
    \cup {snapshots[i].id : i \in 1..Len(snapshots)}
    \cup {snapshots[i].version : i \in 1..Len(snapshots)}

\* the three fields diff tracks
Tracked(t) == <<t.value, t.category, t.deprecated>>

\* C11: for any two references that resolve, diff's added holds exactly the
\* names of B that A lacks, with B's tokens; removed exactly the names of A
\* that B lacks, with A's tokens; changed exactly the shared names whose
\* value, category or deprecated flag differ, with before from A and after
\* from B; unchanged counts the shared names whose tracked fields agree,
\* whatever their other fields hold.
C11_DiffClassifies ==
  \A refA, refB \in DiffRefs :
    (Resolvable(snapshots, refA) /\ Resolvable(snapshots, refB)) =>
      LET a == Resolve(tokens, snapshots, refA)
          b == Resolve(tokens, snapshots, refB)
          d == Diff(tokens, snapshots, refA, refB)
      IN  /\ d.status = "ok"
          /\ DOMAIN d.added = {n \in DOMAIN b : n \notin DOMAIN a}
          /\ \A n \in DOMAIN d.added : d.added[n] = b[n]
          /\ DOMAIN d.removed = {n \in DOMAIN a : n \notin DOMAIN b}
          /\ \A n \in DOMAIN d.removed : d.removed[n] = a[n]
          /\ DOMAIN d.changed
               = {n \in DOMAIN a \cap DOMAIN b : Tracked(a[n]) # Tracked(b[n])}
          /\ \A n \in DOMAIN d.changed :
               /\ Tracked(d.changed[n].before) = Tracked(a[n])
               /\ Tracked(d.changed[n].after) = Tracked(b[n])
          /\ d.summary.unchanged
               = Cardinality({n \in DOMAIN a \cap DOMAIN b :
                                Tracked(a[n]) = Tracked(b[n])})

\* a snapshot and the live store share a token that differs in its
\* description only, and the diff counts it as unchanged
C11_Witness ==
  \E i \in 1..Len(snapshots) :
    LET a == Resolve(tokens, snapshots, snapshots[i].id)
        b == Resolve(tokens, snapshots, Current)
        d == Diff(tokens, snapshots, snapshots[i].id, Current)
    IN  /\ d.status = "ok"
        /\ d.summary.unchanged = 1
        /\ d.summary.changed = 0
        /\ \E n \in DOMAIN a \cap DOMAIN b :
             /\ a[n].description # b[n].description
             /\ a[n].aliases # b[n].aliases

\* the names of the tokens serialized in snapshot i
SnapshotNames(i) ==
  {snapshots[i].data.tokens[k].name : k \in 1..Len(snapshots[i].data.tokens)}

\* C12: for every saved snapshot X, diff(X, X) by X's id reports nothing
\* added, removed or changed, and counts every token of X as unchanged.
C12_DiffSelf ==
  \A i \in 1..Len(snapshots) :
    LET d == Diff(tokens, snapshots, snapshots[i].id, snapshots[i].id) IN
    /\ d.status = "ok"
    /\ d.summary.added = 0 /\ d.added = <<>>
    /\ d.summary.removed = 0 /\ d.removed = <<>>
    /\ d.summary.changed = 0 /\ d.changed = <<>>
    /\ d.summary.unchanged = Len(snapshots[i].data.tokens)

\* a snapshot of one token, while the live store holds two
C12_Witness ==
  \E i \in 1..Len(snapshots) :
    /\ Len(snapshots[i].data.tokens) = 1
    /\ Cardinality(tokens) = 2
    /\ Diff(tokens, snapshots, snapshots[i].id, snapshots[i].id).summary.unchanged = 1

\* C13: when an update_token changes a stored token's value from v1 to v2,
\* every snapshot that holds the token with value v1 is told apart from the
\* live store: diff(S, "current") lists the name under changed with
\* before.value = v1 and after.value = v2.
C13_DiffChanged ==
  [][ IsCall("update") =>
        \A r \in tokens, q \in tokens' :
          (q.name = r.name /\ q.value # r.value) =>
            \A i \in 1..Len(snapshots') :
              LET s == Resolve(tokens', snapshots', snapshots'[i].id)  IN
              (r.name \in DOMAIN s /\ s[r.name].value = r.value) =>
                LET d == Diff(tokens', snapshots', snapshots'[i].id, Current) IN
                /\ d.status = "ok"
                /\ r.name \in DOMAIN d.changed
                /\ d.changed[r.name].before.value = r.value
                /\ d.changed[r.name].after.value = q.value
    ]_vars

\* the value of a token held by a snapshot has just been updated
C13_Witness ==
  /\ last.op = "update"
  /\ last.status = "ok"
  /\ \E i \in 1..Len(snapshots) :
       LET d == Diff(tokens, snapshots, snapshots[i].id, Current) IN
       /\ last.arg[2].name \in DOMAIN d.changed
       /\ d.changed[last.arg[2].name].before.value = last.arg[2].value
       /\ d.changed[last.arg[2].name].after.value = last.ret[1].value
       /\ last.arg[2].value # last.ret[1].value
       /\ \E r \in tokens : r.name = last.arg[2].name /\ r.value = last.ret[1].value

\* C14: a live token whose name a snapshot S does not hold (it was added
\* after S was taken and is still there) is listed by name under added in
\* diff(S, "current"), whose added count is then at least 1.
C14_DiffAdded ==
  \A i \in 1..Len(snapshots) :
    \A r \in tokens :
      r.name \notin SnapshotNames(i) =>
        LET d == Diff(tokens, snapshots, snapshots[i].id, Current) IN
        /\ d.status = "ok"
        /\ d.summary.added >= 1
        /\ r.name \in DOMAIN d.added

\* a token was added after a snapshot that holds another token
C14_Witness ==
  /\ last.op = "add"
  /\ last.status = "ok"
  /\ \E i \in 1..Len(snapshots) :
       /\ SnapshotNames(i) # {}
       /\ last.ret[1].name \notin SnapshotNames(i)
       /\ last.ret[1].name \in
            DOMAIN Diff(tokens, snapshots, snapshots[i].id, Current).added

\* C15: the label a snapshot is stored and looked up under is the label the
\* caller passed or, when none was passed, the one derived from the clock,
\* and it is the label inside the snapshot's serialized record.
C15_SnapshotLabel ==
  [][ IsCall("snapshot") =>
        LET row == snapshots'[Len(snapshots')]
            label == IF last'.arg[1] # <<>> THEN last'.arg[1] ELSE Strftime(now)
        IN  /\ row.id = last'.ret[1]
            /\ row.version = label
            /\ row.data.version = label
    ]_vars

\* the positions of the entries of an import whose spec is a dictionary
RecordEntries(entries) == {k \in 1..Len(entries) : entries[k].dict}

\* an entry that is a dictionary and gives a token that passes validation
WellFormed(e) ==
  e.dict /\ e.texts /\ Validate(ImportToken(e.name, e.spec, Uuid(0), 1)) = <<>>

\* C16: an import never aborts: it returns its counts, a failing entry
\* keeps no later entry from being added, and added + skipped + the number
\* of error messages is the number of entries of the source.
C16_ImportCountsEveryEntry ==
  [][ IsCall("import") =>
        LET entries == last'.arg[1]
            ret == last'.ret
        IN  /\ last'.status = "ok"
            /\ ret[1] + ret[2] + Len(ret[3]) = Len(entries)
            /\ \A k \in RecordEntries(entries) :
                 WellFormed(entries[k]) => NamePresent(tokens', entries[k].name)
            /\ tokens \subseteq tokens'
            /\ Cardinality(tokens') = Cardinality(tokens) + ret[1]
    ]_vars

\* C17: an import counts as skipped exactly the well-formed entries whose
\* name is already in the store, and reports every entry that fails
\* validation among the error messages.
C17_ImportSkipsDuplicatesOnly ==
  [][ (IsCall("import") /\ last'.status = "ok") =>
        LET entries == last'.arg[1]
            ret == last'.ret
        IN  /\ ret[2] = Cardinality({k \in RecordEntries(entries) :
                                       /\ WellFormed(entries[k])
                                       /\ NamePresent(tokens, entries[k].name)})
            /\ Len(ret[3]) = Cardinality({k \in RecordEntries(entries) :
                                            ~WellFormed(entries[k])})
    ]_vars

\* C18: an import whose n entries are all well-formed and fresh returns
\* (n, 0, no errors); the same import made again right after it returns
\* (0, n, no errors) and leaves the store as it was.
C18_ImportIdempotent ==
  [][ IsCall("import") =>
        LET entries == last'.arg[1]
            n == Len(entries)
        IN  /\ (\A k \in 1..n : /\ WellFormed(entries[k])
                                 /\ ~NamePresent(tokens, entries[k].name))
                 => (last'.status = "ok" /\ last'.ret = <<n, 0, <<>>>>)
            /\ (/\ last.op = "import"
                /\ last.arg = last'.arg
                /\ last.ret = <<n, 0, <<>>>>)
                 => /\ last'.status = "ok"
                    /\ last'.ret = <<0, n, <<>>>>
                    /\ tokens' = tokens
    ]_vars

\* a batch of two was imported again into a store that holds a third token
C18_Witness ==
  /\ last.op = "import"
  /\ last.ret = <<0, 2, <<>>>>
  /\ Len(last.arg[1]) = 2
  /\ Cardinality(tokens) = 3

\* C19: every entry of the catalogue is a valid token with a name of its
\* own; after a seed run every seeded name is in the store, whatever the
\* store held before, the run having added what it reports and removed
\* nothing; a seed run right after a seed run adds 0 and changes nothing.
C19_SeedIdempotent ==
  [][ IsCall("seed") =>
        /\ \A k \in 1..Len(SEED_CATALOGUE) :
             /\ Validate(SeedToken(SEED_CATALOGUE[k], Uuid(0), 1)) = <<>>
             /\ \A j \in 1..Len(SEED_CATALOGUE) :
                  SEED_CATALOGUE[j].name = SEED_CATALOGUE[k].name => j = k
        /\ \A k \in 1..Len(SEED_TOKENS) : NamePresent(tokens', SEED_TOKENS[k].name)
        /\ tokens \subseteq tokens'
        /\ Cardinality(tokens') = Cardinality(tokens) + last'.ret[1]
        /\ last.op = "seed" => (last'.ret[1] = 0 /\ tokens' = tokens)
    ]_vars

\* a seed run added nothing to a store in which one seeded name belongs to
\* a token that was imported
C19_Witness ==
  /\ last.op = "seed"
  /\ last.ret[1] = 0
  /\ \E r \in tokens :
       /\ r.name = SEED_TOKENS[1].name
       /\ r.value # SEED_TOKENS[1].value
  /\ \A k \in 1..Len(SEED_TOKENS) : NamePresent(tokens, SEED_TOKENS[k].name)

\* the category filters callers pass to list_tokens; "" is no filter
ListFilters == {<<>>, color, spacing, <<"p","a","d">>}

\* C20: list_tokens returns, once each, the stored tokens of the category
\* asked for (of every category when none is) that are not deprecated
\* unless deprecated ones are asked for, in ascending order of category
\* and, within a category, of name.
C20_ListTokens ==
  \A category \in ListFilters, include_deprecated \in BOOLEAN :
    LET list == ListTokens(tokens, category, include_deprecated)
        want == {r \in tokens :
                   /\ category = <<>> \/ r.category = category
                   /\ include_deprecated \/ r.deprecated = 0}
    IN  /\ Len(list) = Cardinality(want)
        /\ {list[i].name : i \in 1..Len(list)} = {r.name : r \in want}
        /\ \A i \in 1..Len(list) :
             \E r \in want : /\ r.id = list[i].id /\ r.name = list[i].name
                              /\ r.category = list[i].category
                              /\ r.value = list[i].value
                              /\ (r.deprecated = 1) = list[i].deprecated
        /\ \A i, j \in 1..Len(list) :
             i < j => \/ TextLess(list[i].category, list[j].category)
                      \/ /\ list[i].category = list[j].category
                         /\ TextLess(list[i].name, list[j].name)

\* the full listing puts a color token before a spacing token whose name
\* comes first, and the listing without deprecated tokens is shorter
C20_Witness ==
  LET all == ListTokens(tokens, <<>>, TRUE) IN
  /\ \E i, j \in 1..Len(all) : i < j /\ TextLess(all[j].name, all[i].name)
  /\ Len(ListTokens(tokens, <<>>, FALSE)) < Len(all)
  /\ Len(ListTokens(tokens, spacing, TRUE)) = 1

\* C21: snapshots are only ever appended: every step keeps each saved row
\* as it is, a save adds one row under the identifier it returns, and
\* every list list_snapshots may return holds one header for each saved
\* row, a later created_at never after an earlier one in the list.
C21_SnapshotList ==
  [][ /\ Len(snapshots') >= Len(snapshots)
      /\ \A k \in 1..Len(snapshots) : snapshots'[k] = snapshots[k]
      /\ IsCall("snapshot") =>
            /\ Len(snapshots') = Len(snapshots) + 1
            /\ snapshots'[Len(snapshots')].id = last'.ret[1]
      /\ ListSnapshots(snapshots') # {}
      /\ \A list \in ListSnapshots(snapshots') :
            /\ Len(list) = Len(snapshots')
            /\ \A k \in 1..Len(snapshots') :
                 Cardinality({i \in 1..Len(list) :
                                list[i] = SnapshotHeader(snapshots'[k])}) = 1
            /\ \A i, j \in 1..Len(list) :
                 i < j => list[i].created_at >= list[j].created_at
    ]_vars

\* two snapshots were saved at different times, the later one just now
\* and listed first
C21_Witness ==
  /\ Len(snapshots) = 2
  /\ snapshots[1].created_at < snapshots[2].created_at
  /\ last.op = "snapshot"
  /\ \A list \in ListSnapshots(snapshots) : list[1].id = snapshots[2].id

\* mutant: a diff against the live store first saves the store as a snapshot
DiffCallSaving(refA, refB) ==
  LET out == Diff(tokens, snapshots, refA, refB)
      sid == Uuid(uuids + 1)
  IN  /\ Called
      /\ snapshots' = IF Current \in {refA, refB}
                      THEN Append(snapshots,
                                  SnapshotRow(tokens, sid, Current, "diff", "", now))
                      ELSE snapshots
      /\ uuids' = IF Current \in {refA, refB} THEN uuids + 1 ELSE uuids
      /\ last' = Call("diff", <<refA, refB>>, out.status,
                      IF out.status = "ok" THEN <<out>> ELSE <<>>)
      /\ UNCHANGED <<tokens, now>>

\* diff(snapshot_id_a, snapshot_id_b) as a call: it only reads the two
\* tables, and ends with KeyError when a reference names no snapshot
DiffCall(refA, refB) ==
  LET out == Diff(tokens, snapshots, refA, refB) IN
  /\ Called
  /\ last' = Call("diff", <<refA, refB>>, out.status,
                  IF out.status = "ok" THEN <<out>> ELSE <<>>)
  /\ UNCHANGED <<tokens, snapshots, now, uuids>>

\* the calls around a diff: tokens added and deleted, snapshots saved, and
\* diffs between any two references
NextRead ==
  \/ Tick
  \/ \E token \in AddInputs : Add(token)
  \/ \E ref \in Refs : Delete(ref)
  \/ \E version \in SnapshotLabels : Snapshot(version, "snapshot", "")
  \/ \E refA, refB \in DiffRefs : DiffCall(refA, refB)

SpecRead == Init /\ [][NextRead]_vars

\* C22: a diff, whether it returns or ends with NotFound, leaves the store
\* and every snapshot as they were; it ends with NotFound exactly when one
\* of its references names no snapshot; and a diff of the same references
\* made right after a diff ends the same way with the same result.
C22_DiffReadOnly ==
  [][ IsCall("diff") =>
        /\ tokens' = tokens
        /\ snapshots' = snapshots
        /\ last'.status \in {"ok", "NotFound"}
        /\ last'.status = "NotFound"
             <=> \E k \in 1..2 : ~Resolvable(snapshots, last'.arg[k])
        /\ (last.op = "diff" /\ last.arg = last'.arg)
             => (last'.status = last.status /\ last'.ret = last.ret)
    ]_vars

\* a diff of a saved snapshot against a text that names none ended with
\* NotFound, the store holding a token
C22_Witness ==
  /\ last.op = "diff"
  /\ last.status = "NotFound"
  /\ Resolvable(snapshots, last.arg[1])
  /\ last.arg[1] # Current
  /\ tokens # {}

\* the lines of an export written for the token of this name
LinesFor(lines, name) == {i \in 1..Len(lines) : lines[i].token = name}

\* C23: no default export (CSS variables, JS module, theme configuration)
\* holds a line for a deprecated token, and each of them holds, for every
\* token that is not deprecated, an entry with the token's key and value.
C23_ExportsSkipDeprecated ==
  LET css == ExportCss(tokens, DefaultPrefix, <<>>, FALSE)
      js == ExportJs(tokens, <<>>, now)
      tw == ExportTailwind(tokens, now)
  IN  \A r \in tokens :
        IF r.deprecated # 0
        THEN /\ LinesFor(css, r.name) = {}
             /\ LinesFor(js, r.name) = {}
             /\ LinesFor(tw, r.name) = {}
        ELSE /\ \E i \in LinesFor(css, r.name) :
                  /\ css[i].kind = "var"
                  /\ css[i].key = ToCssVar(RowToToken(r), DefaultPrefix)
                  /\ css[i].value = r.value
             /\ \E i \in LinesFor(js, r.name) :
                  /\ js[i].kind = "const"
                  /\ js[i].key = Camel(r.name)
                  /\ js[i].value = JsonText(r.value)
             /\ \E i \in LinesFor(tw, r.name) :
                  /\ tw[i].kind = "entry"
                  /\ tw[i].key = TailwindKey(RowToToken(r))
                  /\ tw[i].value = r.value

\* the tokens callers build and validate: every name with every category
\* and every value
ValidateInputs ==
  {Token(id1, name, category, value) :
     name \in {<<>>, nameA, <<"C","/","A">>, <<"c"," ","a">>, <<"c","/","a","\n">>},
     category \in {color, spacing, <<"p","a","d">>, CATEGORIES[10]},
     value \in {<<>>, <<"#","f","f","f">>, <<"b","l","u","e">>, <<"4","p","x">>,
                <<"8">>, <<"v","a","r","(","x",")">>}}

\* token.validate() as a call
ValidateCall(token) ==
  /\ Called
  /\ last' = Call("validate", <<token>>, "ok", <<Validate(token)>>)
  /\ UNCHANGED <<tokens, snapshots, now, uuids>>

NextValidate == \E token \in ValidateInputs : ValidateCall(token)

SpecValidate == Init /\ [][NextValidate]_vars

\* the name rule as the error message words it: a lowercase letter or a
\* digit, then lowercase letters, digits, hyphens, dots and slashes, the
\* case of the name folded
NameRule(name) == NameBodyOk(Lower(name))

\* C24: validate returns one error for every rule the token breaks (two
\* when the name is empty: it is required, and it has no format) and
\* nothing else, so the list is empty exactly when no rule is broken.
C24_ValidateCollects ==
  [][ IsCall("validate") =>
        LET t == last'.arg[1]
            errors == last'.ret[1]
            Count(kind) == Cardinality({i \in 1..Len(errors) : errors[i].kind = kind})
            Broken(kind) ==
              CASE kind = "name_required" -> t.name = <<>>
                [] kind = "name_format" -> ~NameRule(t.name)
                [] kind = "category" -> ~IsCategory(t.category)
                [] kind = "value_required" -> t.value = <<>>
                [] kind = "color" -> t.category = color /\ ~IsValidColor(t.value)
                [] kind = "spacing" ->
                     /\ t.category = spacing
                     /\ ~SpacingFormatOk(t.value)
                     /\ ~StartsWith(t.value, <<"v","a","r","(">>)
            Rules == {"name_required", "name_format", "category",
                      "value_required", "color", "spacing"}
        IN  /\ \A kind \in Rules : Count(kind) = IF Broken(kind) THEN 1 ELSE 0
            /\ \A i \in 1..Len(errors) : errors[i].kind \in Rules
            /\ errors = <<>> <=> \A kind \in Rules : ~Broken(kind)
    ]_vars

\* a row no call of this program writes: a deprecated color whose value is
\* no color, left in the table by another writer of the database file
ForeignRow ==
  TokenToRow([Token(<<"i","9">>, <<"z","/","9">>, color, <<"b","l","u","e">>)
                EXCEPT !.deprecated = TRUE, !.deprecated_reason = "old"])

\* how often a name occurs in a sequence of names
Occurs(names, name) == Cardinality({i \in 1..Len(names) : names[i] = name})

\* C25: the sweep over the table, as the calls left it and with a foreign
\* row beside them, counts every row once (total = rows = valid + invalid),
\* puts a row under valid when it passes validation and under invalid
\* when it does not, and lists each deprecated row, valid or not, once
\* under deprecated with its reason.
C25_ValidateAllClassifies ==
  \A store \in {tokens, tokens \cup {ForeignRow}} :
    LET v == ValidateAll(store)
        invalid == [i \in 1..Len(v.invalid) |-> v.invalid[i].name]
        deprecated == [i \in 1..Len(v.deprecated) |-> v.deprecated[i].name]
    IN  /\ v.summary.total = Cardinality(store)
        /\ v.summary.valid + v.summary.invalid = v.summary.total
        /\ v.summary.valid = Len(v.valid)
        /\ v.summary.invalid = Len(v.invalid)
        /\ v.summary.deprecated = Len(v.deprecated)
        /\ v.summary.deprecated = Cardinality({r \in store : r.deprecated # 0})
        /\ \A r \in store :
             LET ok == Validate(RowToToken(r)) = <<>> IN
             /\ Occurs(v.valid, r.name) = IF ok THEN 1 ELSE 0
             /\ Occurs(invalid, r.name) = IF ok THEN 0 ELSE 1
             /\ Occurs(deprecated, r.name) = IF r.deprecated # 0 THEN 1 ELSE 0
             /\ \A i \in 1..Len(v.deprecated) :
                  v.deprecated[i].name = r.name
                    => v.deprecated[i].reason = r.deprecated_reason
             /\ \A i \in 1..Len(v.invalid) :
                  v.invalid[i].name = r.name
                    => v.invalid[i].errors = Validate(RowToToken(r))

\* an update has deprecated one of two stored tokens: the sweep counts two
\* valid and one deprecated, and with the foreign row one name is both
\* invalid and deprecated
C25_Witness ==
  /\ last.op = "update"
  /\ last.status = "ok"
  /\ last.ret[1].deprecated
  /\ ValidateAll(tokens).summary = [total |-> 2, valid |-> 2, invalid |-> 0,
                                    deprecated |-> 1]
  /\ LET v == ValidateAll(tokens \cup {ForeignRow}) IN
       /\ v.summary = [total |-> 3, valid |-> 2, invalid |-> 1, deprecated |-> 2]
       /\ \E i \in 1..Len(v.invalid), j \in 1..Len(v.deprecated) :
            v.invalid[i].name = v.deprecated[j].name

\* C26: in every state a reference matches at most one stored token (no
\* token's id is another token's name), so get_token has one token at
\* most to return, delete_token removes one row at most and update_token
\* changes one row at most.
C26_ReferenceUnambiguous ==
  [][ /\ \A r1, r2 \in tokens' : r1.id = r2.name => r1 = r2
      /\ \A ref \in {r.id : r \in tokens'} \cup {r.name : r \in tokens'} :
           /\ Cardinality(Matching(tokens', ref)) = 1
           /\ Cardinality(GetToken(tokens', ref)) = 1
      /\ IsCall("delete") => Cardinality(tokens \ tokens') <= 1
      /\ IsCall("update") => Cardinality(tokens' \ tokens) <= 1
    ]_vars

\* C27: for every saved snapshot, its id and the label it is stored under
\* both stand for its contents: the diff of the one against the other
\* succeeds and reports nothing added, removed or changed, whatever the
\* store holds.
C27_SnapshotRefsAgree ==
  \A i \in 1..Len(snapshots) :
    LET d == Diff(tokens, snapshots, snapshots[i].id, snapshots[i].version) IN
    /\ d.status = "ok"
    /\ d.summary.added = 0
    /\ d.summary.removed = 0
    /\ d.summary.changed = 0

\* the names a reference that resolves stands for: those of the store, or
\* those of the first snapshot whose id or label it is
NamesOf(ref) ==
  IF ref = Current THEN {r.name : r \in tokens}
  ELSE SnapshotNames(FirstMatch(snapshots, ref))

\* C28: for any two references A and B that resolve, added + changed +
\* unchanged is the number of names of B, removed + changed + unchanged is
\* the number of names of A, the counts are the sizes of the dictionaries,
\* and no name is in two of added, removed and changed.
C28_DiffPartitions ==
  \A refA, refB \in DiffRefs :
    (Resolvable(snapshots, refA) /\ Resolvable(snapshots, refB)) =>
      LET d == Diff(tokens, snapshots, refA, refB) IN
      /\ d.summary.added + d.summary.changed + d.summary.unchanged
           = Cardinality(NamesOf(refB))
      /\ d.summary.removed + d.summary.changed + d.summary.unchanged
           = Cardinality(NamesOf(refA))
      /\ d.summary.added = Cardinality(DOMAIN d.added)
      /\ d.summary.removed = Cardinality(DOMAIN d.removed)
      /\ d.summary.changed = Cardinality(DOMAIN d.changed)
      /\ DOMAIN d.added \cap DOMAIN d.removed = {}
      /\ DOMAIN d.added \cap DOMAIN d.changed = {}
      /\ DOMAIN d.removed \cap DOMAIN d.changed = {}
      /\ DOMAIN d.added \cup DOMAIN d.changed \subseteq NamesOf(refB)
      /\ DOMAIN d.removed \cup DOMAIN d.changed \subseteq NamesOf(refA)

\* a token of a snapshot was given another value: against the live store
\* the diff counts it as changed, and the other way round as well
C28_Witness ==
  /\ last.op = "update"
  /\ last.status = "ok"
  /\ \E i \in 1..Len(snapshots) :
       /\ Cardinality(SnapshotNames(i)) = 1
       /\ Diff(tokens, snapshots, snapshots[i].id, Current).summary
            = [added |-> 0, removed |-> 0, changed |-> 1, unchanged |-> 0]
       /\ Diff(tokens, snapshots, Current, snapshots[i].id).summary
            = [added |-> 0, removed |-> 0, changed |-> 1, unchanged |-> 0]

====
